---- MODULE Spec2Model ----
(***************************************************************************)
(* Conformation dataset engine of utils/datasets.py: the graph record      *)
(* builders (pdb_to_data, rdmol_to_data), the index splitter               *)
(* (get_idx_split) and the dataset classes (ConformationDataset,           *)
(* SidechainConformationDataset, PackedConformationDataset).               *)
(*                                                                         *)
(* Atom indices are 0-based as in the source; TLA+ sequences are 1-based,  *)
(* so the value of a tensor t at index i is t[i + 1], written At(t, i).    *)
(***************************************************************************)
EXTENDS Integers, Sequences, FiniteSets, TLC

(***************************************************************************)
(* Bounds of the model.                                                    *)
(***************************************************************************)
\* residues of an input protein structure
MaxResidues == 2
\* data_size, train_size and valid_size of get_idx_split range over 0..MaxSize
MaxSize == 3
\* number of seeds (distinct permutations) tried by get_idx_split
MaxSeed == 2
\* period of the abstract random generator
RngPeriod == 3

(***************************************************************************)
(* Generic helpers on tensors (sequences).                                 *)
(***************************************************************************)
At(t, i) == t[i + 1]

Range(t) == {t[k] : k \in 1..Len(t)}

\* number of TRUE entries of a boolean tensor: t.sum().item()
RECURSIVE CountTrue(_)
CountTrue(t) ==
    IF t = <<>> THEN 0
    ELSE (IF Head(t) THEN 1 ELSE 0) + CountTrue(Tail(t))

\* t[mask]: the entries of t whose mask entry is TRUE, in order
RECURSIVE MaskSelect(_, _)
MaskSelect(t, mask) ==
    IF t = <<>> THEN <<>>
    ELSE (IF Head(mask) THEN <<Head(t)>> ELSE <<>>) \o MaskSelect(Tail(t), Tail(mask))

\* torch.arange(n)
Arange(n) == [k \in 1..n |-> k - 1]

\* t[index] for an index tensor (0-based entries)
Gather(t, index) == [k \in 1..Len(index) |-> At(t, index[k])]

Min(S) == CHOOSE x \in S : \A y \in S : x <= y
Max(S) == CHOOSE x \in S : \A y \in S : x >= y

(***************************************************************************)
(* Input structures (what the external parser, RDKit, hands to the         *)
(* builders).  A structure is a list of atoms and a bond table; a protein  *)
(* atom carries its PDB name, residue number and element.                  *)
(*                                                                         *)
(* Proteins are enumerated residue by residue: each residue is a template  *)
(* (possibly truncated, as in PDB files with missing atoms), placed at a   *)
(* base point, its atoms 4 length units apart along z.                     *)
(***************************************************************************)
Templates == {"GLY", "ALA", "FRG"}

TemplateAtoms(tpl) ==
    CASE tpl = "GLY" -> <<"N", "CA">>
      [] tpl = "ALA" -> <<"N", "CA", "CB">>
      [] tpl = "FRG" -> <<"CB", "OG">>

\* bonds inside a template: consecutive atoms; the last bond of FRG is double
TemplateBondType(tpl, j) == IF tpl = "FRG" THEN 2 ELSE 1

BasePoints == {<<0, 0, 0>>, <<6, 8, 0>>, <<0, 0, 14>>}

ResidueSteps == {1, 2}

ElementOf(name) ==
    CASE name = "N" -> 7
      [] name = "OG" -> 8
      [] OTHER -> 6

ResidueSpecs == [tpl : Templates, base : BasePoints, step : ResidueSteps]

\* residue number of the k-th residue: the steps accumulate
RECURSIVE ResNum(_, _)
ResNum(rs, k) == IF k = 0 THEN 0 ELSE ResNum(rs, k - 1) + rs[k].step

\* atoms of residue k
ResidueAtomList(rs, k) ==
    LET names == TemplateAtoms(rs[k].tpl) IN
    [j \in 1..Len(names) |->
        [name    |-> names[j],
         resname |-> rs[k].tpl,
         elem    |-> ElementOf(names[j]),
         resnum  |-> ResNum(rs, k),
         pos     |-> <<rs[k].base[1], rs[k].base[2], rs[k].base[3] + 4 * (j - 1)>>]]

RECURSIVE AtomsOf(_, _)
AtomsOf(rs, k) ==
    IF k = 0 THEN <<>> ELSE AtomsOf(rs, k - 1) \o ResidueAtomList(rs, k)

\* index of the first atom of residue k
FirstAtom(rs, k) == Len(AtomsOf(rs, k - 1))

\* bond table: inside each residue, then the link from the second atom of a
\* residue to the first atom of the next one (the chain)
RECURSIVE BondsOf(_, _)
BondsOf(rs, k) ==
    IF k = 0 THEN <<>>
    ELSE LET n     == Len(TemplateAtoms(rs[k].tpl))
             f     == FirstAtom(rs, k)
             inner == [j \in 1..(n - 1) |->
                          [begin |-> f + j - 1, end |-> f + j,
                           type  |-> TemplateBondType(rs[k].tpl, j)]]
             link  == IF k > 1
                      THEN <<[begin |-> FirstAtom(rs, k - 1) + 1, end |-> f, type |-> 1]>>
                      ELSE <<>>
         IN  BondsOf(rs, k - 1) \o link \o inner

\* the reference atom list of the PDB file (pdb_infos): per atom line the
\* atom name, the residue name and the residue number
RefInfoOf(atoms) ==
    [k \in 1..Len(atoms) |->
        [name |-> atoms[k].name, resname |-> atoms[k].resname, resnum |-> atoms[k].resnum]]

ProteinOf(rs) ==
    [atoms  |-> AtomsOf(rs, Len(rs)),
     bonds  |-> BondsOf(rs, Len(rs)),
     smiles |-> [k \in 1..Len(rs) |-> rs[k].tpl],
     ref    |-> RefInfoOf(AtomsOf(rs, Len(rs)))]

\* a file the parser cannot read: MolFromPDBFile returns None
UnparsableFile == [atoms |-> <<>>, bonds |-> <<>>, smiles |-> <<"?">>, ref |-> <<>>]

ResidueLists == UNION {[1..n -> ResidueSpecs] : n \in 1..MaxResidues}

Proteins == {ProteinOf(rs) : rs \in ResidueLists}

(***************************************************************************)
(* pdb_to_data and rdmol_to_data.                                          *)
(***************************************************************************)
\* a backbone list that leaves the alpha carbon out
BackboneNamesNoAlpha == {"N", "C", "O"}

BackboneNames == {"N", "CA", "C", "O"}

\* size of the res2alpha_index buffer of pdb_to_data
ResidueBufferSize == 5000

\* keys[k] = edge_index[0][k] * N + edge_index[1][k]
EdgeKeys(edge_index, N) == [k \in 1..Len(edge_index) |-> edge_index[k][1] * N + edge_index[k][2]]

\* insert index i into the index list perm, which is sorted by key
RECURSIVE InsertByKey(_, _, _)
InsertByKey(perm, i, keys) ==
    IF perm = <<>> THEN <<i>>
    ELSE IF keys[i] < keys[Head(perm)] THEN <<i>> \o perm
    ELSE <<Head(perm)>> \o InsertByKey(Tail(perm), i, keys)

\* keys.argsort(): the (1-based) positions in ascending order of key
RECURSIVE ArgsortUpTo(_, _)
ArgsortUpTo(keys, n) ==
    IF n = 0 THEN <<>> ELSE InsertByKey(ArgsortUpTo(keys, n - 1), n, keys)

Argsort(keys) == ArgsortUpTo(keys, Len(keys))

\* t[perm] / t[:, perm]
Permute(t, perm) == [k \in 1..Len(perm) |-> t[perm[k]]]

\* row/col lists of the bond loop: each bond in both directions
RECURSIVE EdgeIndexOfBonds(_)
EdgeIndexOfBonds(bonds) ==
    IF bonds = <<>> THEN <<>>
    ELSE <<<<Head(bonds).begin, Head(bonds).end>>, <<Head(bonds).end, Head(bonds).begin>>>>
         \o EdgeIndexOfBonds(Tail(bonds))

RECURSIVE EdgeTypeOfBonds(_)
EdgeTypeOfBonds(bonds) ==
    IF bonds = <<>> THEN <<>>
    ELSE <<Head(bonds).type, Head(bonds).type>> \o EdgeTypeOfBonds(Tail(bonds))

\* edge_type = edge_type[perm], where a slip would leave edge_type unsorted
SortedEdgeTypeUnpermuted(edge_type, perm) == edge_type

SortedEdgeType(edge_type, perm) == Permute(edge_type, perm)

\* the sorted edge list of a structure with N atoms
SortedEdges(bonds, N) ==
    LET edge_index == EdgeIndexOfBonds(bonds)
        edge_type  == EdgeTypeOfBonds(bonds)
        perm       == Argsort(EdgeKeys(edge_index, N))
    IN  [edge_index |-> Permute(edge_index, perm),
         edge_type  |-> SortedEdgeType(edge_type, perm)]

\* a buffer that forgets the residue: the last alpha carbon of the structure
Res2AlphaIndexAnyResidue(atom2res, is_alpha, r) ==
    LET S == {i \in 0..(Len(atom2res) - 1) : At(is_alpha, i)}
    IN  IF S = {} THEN -1 ELSE Max(S)

\* a buffer that takes any index
BufferOverflowIgnored(index, size) == FALSE

\* an index tensor reaches beyond a buffer of size entries (res2alpha_index)
BufferOverflow(index, size) == \E k \in 1..Len(index) : index[k] >= size

\* res2alpha_index[r]: the alpha carbon written last for residue r, else -1
Res2AlphaIndex(atom2res, is_alpha, r) ==
    LET S == {i \in 0..(Len(atom2res) - 1) : At(is_alpha, i) /\ At(atom2res, i) = r}
    IN  IF S = {} THEN -1 ELSE Max(S)

\* results of a call: a record, Python's None, or a raised exception
Some(rec) == [tag |-> "Data", val |-> rec]
None == [tag |-> "None"]
Raised(e) == [tag |-> "raise", err |-> e]

\* the atoms (1-based) at which the loop over mol.GetAtoms() stops: no line
\* in pdb_infos, or one of the three asserts fails
AnnotationFaults(mol) ==
    {k \in 1..Len(mol.atoms) :
        \/ k > Len(mol.ref)
        \/ mol.atoms[k].resname # mol.ref[k].resname
        \/ mol.atoms[k].name # mol.ref[k].name
        \/ mol.atoms[k].resnum # mol.ref[k].resnum}

PdbToData(mol) ==
    IF mol = UnparsableFile THEN None
    ELSE IF AnnotationFaults(mol) # {}
    THEN (IF Min(AnnotationFaults(mol)) > Len(mol.ref) THEN Raised("IndexError")
          ELSE Raised("AssertionError"))
    ELSE
    LET N            == Len(mol.atoms)
        raw          == [k \in 1..N |-> mol.atoms[k].resnum - 1]
        lo           == Min(Range(raw))
        atom2res     == [k \in 1..N |-> raw[k] - lo]
        is_alpha     == [k \in 1..N |-> mol.atoms[k].name = "CA"]
        is_sidechain == [k \in 1..N |-> mol.atoms[k].name \notin BackboneNames]
        edges        == SortedEdges(mol.bonds, N)
    IN  IF BufferOverflow(atom2res, ResidueBufferSize)
        THEN Raised("IndexError")
        ELSE IF CountTrue(is_sidechain) = 0 THEN None
        ELSE IF Len(mol.bonds) = 0 THEN None
        ELSE Some([atom_type        |-> [k \in 1..N |-> mol.atoms[k].elem],
                   pos              |-> [k \in 1..N |-> mol.atoms[k].pos],
                   edge_index       |-> edges.edge_index,
                   edge_type        |-> edges.edge_type,
                   is_alpha         |-> is_alpha,
                   is_sidechain     |-> is_sidechain,
                   atom2res         |-> atom2res,
                   atom2alpha_index |->
                       [k \in 1..N |-> Res2AlphaIndex(atom2res, is_alpha, atom2res[k])]])

RdmolToData(mol) ==
    LET N     == Len(mol.atoms)
        edges == SortedEdges(mol.bonds, N)
    IN  Some([atom_type  |-> [k \in 1..N |-> mol.atoms[k].elem],
              pos        |-> [k \in 1..N |-> mol.atoms[k].pos],
              edge_index |-> edges.edge_index,
              edge_type  |-> edges.edge_type,
              smiles     |-> mol.smiles])

(***************************************************************************)
(* Subgraph sampling of SidechainConformationDataset.__getitem__.          *)
(***************************************************************************)
\* squared Euclidean distance of two points
Dist2(p, q) ==
    (p[1] - q[1]) * (p[1] - q[1]) + (p[2] - q[2]) * (p[2] - q[2])
        + (p[3] - q[3]) * (p[3] - q[3])

\* a slip: an atom at the cutoff exactly counted as far
WithinCutoffStrict(p, q, cut) == cut >= 0 /\ Dist2(p, q) < cut * cut

\* (p - q).norm() <= cutoff, on integer coordinates: the norm is >= 0
WithinCutoff(p, q, cut) == cut >= 0 /\ Dist2(p, q) <= cut * cut

\* backbone_index = dummy_index[~is_sidechain]
BackboneIndex(d) ==
    MaskSelect(Arange(Len(d.pos)), [k \in 1..Len(d.pos) |-> ~d.is_sidechain[k]])

\* mask = (distance <= self.cutoff), around the atom center
NearMask(d, center, cut) ==
    [k \in 1..Len(d.pos) |-> WithinCutoff(At(d.pos, center), d.pos[k], cut)]

\* out[r] after scatter_add_ of the first n entries of src into zeros(dtype
\* of src): src is a boolean tensor, so is out, and boolean addition saturates
RECURSIVE ScatterSumAt(_, _, _, _)
ScatterSumAt(src, index, r, n) ==
    IF n = 0 THEN FALSE
    ELSE ScatterSumAt(src, index, r, n - 1) \/ (index[n] = r /\ src[n])

\* scatter(src, index, dim=-1, dim_size=dim_size, reduce='sum')
Scatter(src, index, dim_size) ==
    [r \in 0..(dim_size - 1) |-> ScatterSumAt(src, index, r, Len(src))]

\* the scatter and the gather after it index a buffer of max_res entries
ResidueOverflow(d, max_res) == \E k \in 1..Len(d.atom2res) : d.atom2res[k] >= max_res

\* a slip: the near mask used as it is, without completing the residues
IsKeepAtomNoCompletion(d, mask, max_res) == mask

\* is_keep_atom = is_keep_residue[atom2res]
IsKeepAtom(d, mask, max_res) ==
    LET is_keep_residue == Scatter(mask, d.atom2res, max_res)
    IN  [k \in 1..Len(d.atom2res) |-> is_keep_residue[d.atom2res[k]]]

\* a slip: an edge kept when its source endpoint is kept
IsKeepEdgeSourceOnly(d, is_keep_atom) ==
    [k \in 1..Len(d.edge_index) |-> At(is_keep_atom, d.edge_index[k][1])]

\* a slip: an edge kept when either endpoint is kept
IsKeepEdgeEither(d, is_keep_atom) ==
    [k \in 1..Len(d.edge_index) |->
        At(is_keep_atom, d.edge_index[k][1]) \/ At(is_keep_atom, d.edge_index[k][2])]

\* is_keep_edge = is_keep_atom[edge_index[0]] & is_keep_atom[edge_index[1]]
IsKeepEdge(d, is_keep_atom) ==
    [k \in 1..Len(d.edge_index) |->
        At(is_keep_atom, d.edge_index[k][1]) /\ At(is_keep_atom, d.edge_index[k][2])]

\* mapping = -ones(N); mapping[keep_index] = arange(len(keep_index))
Mapping(N, is_keep_atom) ==
    LET keep_index == MaskSelect(Arange(N), is_keep_atom)
    IN  [k \in 1..N |->
            IF \E j \in 1..Len(keep_index) : keep_index[j] = k - 1
            THEN (CHOOSE j \in 1..Len(keep_index) : keep_index[j] = k - 1) - 1
            ELSE -1]

\* a slip: the guard counting the sidechain atoms of the whole record
NoSidechainInRecord(d, is_keep_atom) == CountTrue(d.is_sidechain) = 0

\* (data.is_sidechain[is_keep_atom]).sum().item() == 0
NoSidechainKept(d, is_keep_atom) == CountTrue(MaskSelect(d.is_sidechain, is_keep_atom)) = 0

\* a slip: pos taken from the whole record
SubgraphDataFullPos(d, is_keep_atom, is_keep_edge, mapping) ==
    LET kept_edges == MaskSelect(d.edge_index, is_keep_edge) IN
    [atom_type    |-> MaskSelect(d.atom_type, is_keep_atom),
     pos          |-> d.pos,
     edge_index   |-> [k \in 1..Len(kept_edges) |->
                          <<At(mapping, kept_edges[k][1]), At(mapping, kept_edges[k][2])>>],
     edge_type    |-> MaskSelect(d.edge_type, is_keep_edge),
     is_sidechain |-> MaskSelect(d.is_sidechain, is_keep_atom),
     atom2res     |-> MaskSelect(d.atom2res, is_keep_atom)]

\* subgraph_data = Data(atom_type=..., pos=..., edge_index=..., ...)
SubgraphData(d, is_keep_atom, is_keep_edge, mapping) ==
    LET kept_edges == MaskSelect(d.edge_index, is_keep_edge) IN
    [atom_type    |-> MaskSelect(d.atom_type, is_keep_atom),
     pos          |-> MaskSelect(d.pos, is_keep_atom),
     edge_index   |-> [k \in 1..Len(kept_edges) |->
                          <<At(mapping, kept_edges[k][1]), At(mapping, kept_edges[k][2])>>],
     edge_type    |-> MaskSelect(d.edge_type, is_keep_edge),
     is_sidechain |-> MaskSelect(d.is_sidechain, is_keep_atom),
     atom2res     |-> MaskSelect(d.atom2res, is_keep_atom)]

\* the locals of steps 2-4 of __getitem__ for the clone d and the seed atom
SampleLocals(d, center, cut, max_res) ==
    LET mask         == NearMask(d, center, cut)
        is_keep_atom == IsKeepAtom(d, mask, max_res)
    IN  [is_keep_atom |-> is_keep_atom,
         is_keep_edge |-> IsKeepEdge(d, is_keep_atom),
         mapping      |-> Mapping(Len(d.pos), is_keep_atom)]

\* steps 2-4 and the emptiness guard: what __getitem__ has before the transform
Sample(d, center, cut, max_res) ==
    IF ResidueOverflow(d, max_res) THEN Raised("RuntimeError")
    ELSE LET loc == SampleLocals(d, center, cut, max_res) IN
         IF NoSidechainKept(d, loc.is_keep_atom) THEN None
         ELSE Some(SubgraphData(d, loc.is_keep_atom, loc.is_keep_edge, loc.mapping))

(***************************************************************************)
(* get_idx_split (QM93D, TheMainDataset and Geom define the same method).  *)
(***************************************************************************)
\* sklearn.utils.shuffle(range(n), random_state=seed): a permutation of
\* 0..n-1 fixed by the seed (here: a rotation by seed, reversed for odd seeds)
ShuffleRange(n, seed) ==
    [k \in 1..n |->
        LET r == (k - 1 + seed) % n IN IF seed % 2 = 1 THEN n - 1 - r ELSE r]

\* Python's ids[lo:hi] for 0 <= lo, 0 <= hi: both ends are clamped to len(ids)
Slice(ids, lo, hi) ==
    LET a == IF lo > Len(ids) THEN Len(ids) ELSE lo
        b == IF hi > Len(ids) THEN Len(ids) ELSE hi
    IN  IF b <= a THEN <<>> ELSE [k \in 1..(b - a) |-> ids[a + k]]

\* a slip: the validation slice ending at valid_size
ValidSliceShort(ids, train_size, valid_size) == Slice(ids, train_size, valid_size)

\* ids[train_size:train_size + valid_size]
ValidSlice(ids, train_size, valid_size) == Slice(ids, train_size, train_size + valid_size)

GetIdxSplitResult(data_size, train_size, valid_size, seed) ==
    LET ids == ShuffleRange(data_size, seed) IN
    Some([train |-> Slice(ids, 0, train_size),
          valid |-> ValidSlice(ids, train_size, valid_size),
          test  |-> Slice(ids, train_size + valid_size, Len(ids))])

(***************************************************************************)
(* State.                                                                  *)
(***************************************************************************)
VARIABLES
    heap,         \* the Data objects alive: object id -> record
    data,         \* self.data: the flat record store, a list of object ids
    new_data,     \* self.new_data of PackedConformationDataset
    cls,          \* the class of the dataset object
    transform,    \* self.transform: "none", or "shift" (shifts pos in place)
    cutoff,       \* self.cutoff
    max_residue,  \* self.max_residue
    fix_subgraph, \* self.fix_subgraph
    rng,          \* state of torch's default random generator
    wk,           \* per worker: where it is in __getitem__, and its locals
    snapshot,     \* the stored records as they were after construction
    mol0,         \* builder: the structure as first parsed
    mol,          \* builder: the structure handed to the builder
    built,        \* builder: what the builder returned
    split_args,   \* get_idx_split: the arguments of the last call
    split_ret,    \* get_idx_split: what the last call returned
    job,          \* prepare_pdb2: inputs, loop position, train_data, cnt_fail
    batch,        \* the samples fetched for one batch (the argument of collate_fn)
    collated,     \* what collate_fn returned
    geom,         \* preprocess_GEOM_dataset: inputs, loop position, lists, counters
    acc           \* accumulate_grad_from_subgraph: arguments, position, locals

dsvars == <<heap, data, new_data, cls, transform, cutoff, max_residue, fix_subgraph, rng,
            wk, snapshot>>
bvars == <<mol0, mol, built>>
svars == <<split_args, split_ret>>
pvars == <<job, batch, collated, geom, acc>>
vars == <<dsvars, bvars, svars, pvars>>

Pending == [tag |-> "pending"]

Workers == {"w1", "w2"}

IdleWorker ==
    [pc |-> "idle", idx |-> 0, data |-> 0, center |-> -1, mapping |-> <<>>, ret |-> Pending,
     rng0 |-> 0, transformed |-> FALSE]

OffWorker == [IdleWorker EXCEPT !.pc = "off"]

\* the list __getitem__ and __len__ read
Store == IF cls = "PackedConformationDataset" THEN new_data ELSE data

\* where the objects a worker allocates live: after the stored objects, two
\* per worker (slot 1: the clone, slot 2: the subgraph)
WorkerNo(w) == IF w = "w1" THEN 0 ELSE 1
FreshId(w, slot) == Len(data) + Len(new_data) + 2 * WorkerNo(w) + slot

(***************************************************************************)
(* The builders as operations: the parser delivers the bond table in some  *)
(* order, then one of the builders runs.                                   *)
(***************************************************************************)
\* structures whose geometry does not vary (the builders do not read it)
BuilderInputs ==
    {ProteinOf(rs) : rs \in {l \in ResidueLists : \A k \in 1..Len(l) : l[k].base = <<0, 0, 0>>}}

\* structures the parser delivers without any bond: a single atom, or atoms
\* that are not connected
UnbondedInputs ==
    {[atoms |-> SubSeq(m.atoms, 1, n), bonds |-> <<>>, smiles |-> m.smiles,
      ref |-> SubSeq(m.ref, 1, n)] :
        m \in BuilderInputs, n \in 1..2}

Rotate(t, r) == [k \in 1..Len(t) |-> t[((k - 1 + r) % Len(t)) + 1]]
Reverse(t) == [k \in 1..Len(t) |-> t[Len(t) + 1 - k]]
FlipBond(b) == [begin |-> b.end, end |-> b.begin, type |-> b.type]

\* the same bonds in another order: rotated by r, reversed, the bonds in the
\* set flip written end-first
ReorderBonds(r, rev, flip) ==
    /\ built = Pending
    /\ mol = mol0
    /\ Len(mol.bonds) > 0
    /\ LET rot  == Rotate(mol.bonds, r)
           ord  == IF rev THEN Reverse(rot) ELSE rot
           bnds == [k \in 1..Len(ord) |-> IF k \in flip THEN FlipBond(ord[k]) ELSE ord[k]]
       IN  /\ bnds # mol.bonds
           /\ mol' = [mol EXCEPT !.bonds = bnds]
    /\ UNCHANGED <<mol0, built, dsvars, svars, pvars>>

PdbToDataCall ==
    /\ built = Pending
    /\ built' = PdbToData(mol)
    /\ UNCHANGED <<mol0, mol, dsvars, svars, pvars>>

RdmolToDataCall ==
    /\ built = Pending
    /\ built' = RdmolToData(mol)
    /\ UNCHANGED <<mol0, mol, dsvars, svars, pvars>>

(***************************************************************************)
(* get_idx_split as an operation.                                          *)
(***************************************************************************)
GetIdxSplit(data_size, train_size, valid_size, seed) ==
    /\ split_args' = [data_size |-> data_size, train_size |-> train_size,
                      valid_size |-> valid_size, seed |-> seed]
    /\ split_ret' = GetIdxSplitResult(data_size, train_size, valid_size, seed)
    /\ UNCHANGED <<dsvars, bvars, pvars>>

(***************************************************************************)
(* PackedConformationDataset._pack_data_by_mol.                            *)
(***************************************************************************)
\* self.data is the unpickled list of records: hasattr(self.data, 'idx') asks
\* the list, not its records, so the records are grouped by their smiles
ListHasIdx == FALSE

\* the key of a record: self.data[i].idx.item() or self.data[i].smiles
GroupKey(rec) == IF ListHasIdx THEN rec.idx ELSE rec.smiles

\* the keys of the dict _packed_data, in insertion order
RECURSIVE GroupKeys(_)
GroupKeys(recs) ==
    IF recs = <<>> THEN <<>>
    ELSE LET rest == GroupKeys(SubSeq(recs, 1, Len(recs) - 1))
             key  == GroupKey(recs[Len(recs)])
         IN  IF key \in Range(rest) THEN rest ELSE Append(rest, key)

\* _packed_data[key]: the records of one molecule, in stored order
RECURSIVE GroupOf(_, _)
GroupOf(recs, key) ==
    IF recs = <<>> THEN <<>>
    ELSE (IF GroupKey(Head(recs)) = key THEN <<Head(recs)>> ELSE <<>>)
         \o GroupOf(Tail(recs), key)

\* a packer that keeps the first conformer only
CatPosFirstOnly(v) == IF v = <<>> THEN <<>> ELSE Head(v).pos

\* torch.cat(all_pos, 0)
RECURSIVE CatPos(_)
CatPos(v) == IF v = <<>> THEN <<>> ELSE Head(v).pos \o CatPos(Tail(v))

\* a packer that keeps the energies of the first conformer
PackGroupKeepEnergetics(v) == v[1] @@ [pos_ref |-> CatPos(v), num_pos_ref |-> Len(v)]

\* one packed record: a deep copy of v[0] with pos_ref and num_pos_ref, the
\* energies deleted
PackGroup(v) ==
    LET first == v[1] IN
    [f \in DOMAIN first \ {"totalenergy", "boltzmannweight"} |-> first[f]]
        @@ [pos_ref |-> CatPos(v), num_pos_ref |-> Len(v)]

PackDataByMol(recs) ==
    LET keys == GroupKeys(recs) IN [k \in 1..Len(keys) |-> PackGroup(GroupOf(recs, keys[k]))]

(***************************************************************************)
(* __getitem__ of the three dataset classes, step by step: the steps of    *)
(* several workers interleave.                                             *)
(***************************************************************************)
\* the transform of the model: pos shifted by one unit, in place
ShiftPos(rec) ==
    [rec EXCEPT !.pos = [k \in 1..Len(@) |-> <<@[k][1] + 1, @[k][2] + 1, @[k][3] + 1>>]]

\* torch.randint(low=0, high=high, size=(1,)) on generator state g
RandInt(g, high) == g % high
RngNext(g) == (g + 1) % RngPeriod

\* a slip: no copy, the stored object itself is handed on
CloneTargetAliased(src, fresh) == src

\* Data.clone(): the copy is a new object
CloneTarget(src, fresh) == fresh

\* data = self.data[idx].clone()   (self.new_data[idx] when packed)
Clone(w, i) ==
    /\ wk[w].pc = "idle"
    /\ i \in 1..Len(Store)
    /\ LET src == Store[i]
           obj == CloneTarget(src, FreshId(w, 1))
       IN  /\ heap' = (obj :> heap[src]) @@ heap
           /\ wk' = [wk EXCEPT ![w] = [IdleWorker EXCEPT !.pc = "cloned", !.idx = i,
                                                          !.data = obj, !.rng0 = rng]]
    /\ UNCHANGED <<data, new_data, cls, transform, cutoff, max_residue, fix_subgraph, rng,
                   snapshot, bvars, svars, pvars>>

\* a seed policy that ignores fix_subgraph and always draws
CenterAtomIndexAlwaysRandom(backbone_index, fix, g) ==
    At(backbone_index, RandInt(g, Len(backbone_index)))

\* center_atom_index: backbone_index[size // 2] when fix_subgraph, else
\* backbone_index[torch.randint(0, size)]
CenterAtomIndex(backbone_index, fix, g) ==
    IF fix THEN At(backbone_index, Len(backbone_index) \div 2)
    ELSE At(backbone_index, RandInt(g, Len(backbone_index)))

\* step 1: the seed atom, fixed (the middle backbone atom) or random
SelectCenter(w) ==
    /\ cls = "SidechainConformationDataset"
    /\ wk[w].pc = "cloned"
    /\ LET backbone_index == BackboneIndex(heap[wk[w].data])
           n == Len(backbone_index)
       IN  IF n = 0
           THEN /\ wk' = [wk EXCEPT ![w].pc = "done",
                                    ![w].ret = Raised(IF fix_subgraph THEN "IndexError"
                                                      ELSE "RuntimeError")]
                /\ rng' = rng
           ELSE /\ wk' = [wk EXCEPT ![w].pc = "seeded",
                                    ![w].center =
                                        CenterAtomIndex(backbone_index, fix_subgraph, rng)]
                /\ rng' = IF fix_subgraph THEN rng ELSE RngNext(rng)
    /\ UNCHANGED <<heap, data, new_data, cls, transform, cutoff, max_residue, fix_subgraph,
                   snapshot, bvars, svars, pvars>>

\* steps 2-4 and the emptiness guard
SampleSubgraph(w) ==
    /\ wk[w].pc = "seeded"
    /\ LET d == heap[wk[w].data]
           r == Sample(d, wk[w].center, cutoff, max_residue)
           m == IF r.tag = "raise" THEN <<>>
                ELSE SampleLocals(d, wk[w].center, cutoff, max_residue).mapping
       IN  IF r.tag = "Data"
           THEN LET obj == FreshId(w, 2) IN
                /\ heap' = (obj :> r.val) @@ heap
                /\ wk' = [wk EXCEPT ![w].pc = "sampled", ![w].ret = Some(obj),
                                    ![w].mapping = m]
           ELSE /\ heap' = heap
                /\ wk' = [wk EXCEPT ![w].pc = "done", ![w].ret = r, ![w].mapping = m]
    /\ UNCHANGED <<data, new_data, cls, transform, cutoff, max_residue, fix_subgraph, rng,
                   snapshot, bvars, svars, pvars>>

\* if self.transform is not None: data = self.transform(data); return data
ApplyTransform(w) ==
    /\ \/ wk[w].pc = "sampled"
       \/ wk[w].pc = "cloned" /\ cls # "SidechainConformationDataset"
    /\ LET obj == IF wk[w].pc = "sampled" THEN wk[w].ret.val ELSE wk[w].data IN
       /\ heap' = IF transform = "none" THEN heap ELSE [heap EXCEPT ![obj] = ShiftPos(@)]
       /\ wk' = [wk EXCEPT ![w].pc = "done", ![w].ret = Some(obj),
                           ![w].transformed = (transform # "none")]
    /\ UNCHANGED <<data, new_data, cls, transform, cutoff, max_residue, fix_subgraph, rng,
                   snapshot, bvars, svars, pvars>>

\* the seed atom of a call that finds the generator in state g
CenterOf(d, g) ==
    CenterAtomIndex(BackboneIndex(d), fix_subgraph, g)

\* SidechainConformationDataset.__getitem__ run without interruption on the
\* stored record d, the generator in state g: the value it returns
GetItemAlone(d, g) ==
    IF Len(BackboneIndex(d)) = 0
    THEN Raised(IF fix_subgraph THEN "IndexError" ELSE "RuntimeError")
    ELSE LET r == Sample(d, CenterOf(d, g), cutoff, max_residue) IN
         IF r.tag = "Data" /\ transform # "none" THEN Some(ShiftPos(r.val)) ELSE r

\* objects a worker holds
Held(w) ==
    (IF wk[w].data # 0 THEN {wk[w].data} ELSE {})
        \cup (IF wk[w].ret.tag = "Data" THEN {wk[w].ret.val} ELSE {})

\* the caller is done with the result: what nothing refers to is collected
Release(w) ==
    /\ wk[w].pc = "done"
    /\ LET live == Range(data) \cup Range(new_data)
                       \cup UNION {Held(v) : v \in Workers \ {w}}
       IN  heap' = [o \in DOMAIN heap \cap live |-> heap[o]]
    /\ wk' = [wk EXCEPT ![w] = IdleWorker]
    /\ UNCHANGED <<data, new_data, cls, transform, cutoff, max_residue, fix_subgraph, rng,
                   snapshot, bvars, svars, pvars>>

(***************************************************************************)
(* Initial states and specifications.                                      *)
(***************************************************************************)
\* defaults of SidechainConformationDataset.__init__
DefaultCutoff == 10
DefaultMaxResidue == 5000

\* the dataset objects tried: the defaults with a random and with a fixed
\* seed atom, and a short cutoff with a low residue ceiling
DatasetConfigs ==
    {[cutoff |-> DefaultCutoff, max_residue |-> DefaultMaxResidue, fix_subgraph |-> FALSE,
      transform |-> "none"],
     [cutoff |-> DefaultCutoff, max_residue |-> DefaultMaxResidue, fix_subgraph |-> TRUE,
      transform |-> "shift"],
     [cutoff |-> 5, max_residue |-> 2, fix_subgraph |-> FALSE, transform |-> "shift"]}

NoMol == [atoms |-> <<>>, bonds |-> <<>>, smiles |-> <<>>, ref |-> <<>>]
NoCall == [data_size |-> 0, train_size |-> 0, valid_size |-> 0, seed |-> 0]

BuilderIdle == mol0 = NoMol /\ mol = NoMol /\ built = Pending
SplitIdle == split_args = NoCall /\ split_ret = Pending
NoJob == [pc |-> "off", inputs |-> <<>>, i |-> 0, train_data |-> <<>>, cnt_fail |-> 0,
          err |-> ""]
NoGeom == [pc |-> "off"]
NoAcc == [pc |-> "off"]
PrepareIdle ==
    job = NoJob /\ batch = <<>> /\ collated = Pending /\ geom = NoGeom /\ acc = NoAcc
DatasetIdle ==
    /\ heap = <<>> /\ data = <<>> /\ new_data = <<>> /\ snapshot = <<>>
    /\ cls = "ConformationDataset" /\ transform = "none"
    /\ cutoff = DefaultCutoff /\ max_residue = DefaultMaxResidue /\ fix_subgraph = FALSE
    /\ rng = 0 /\ wk = [w \in Workers |-> OffWorker]

\* the records pdb_to_data accepts
ProteinRecords == {PdbToData(p).val : p \in {q \in Proteins : PdbToData(q).tag = "Data"}}

\* a dataset object of class c over the records recs, configured by cfg
Constructed(c, recs, cfg, g, active) ==
    /\ cls = c
    /\ data = [k \in 1..Len(recs) |-> k]
    /\ LET packed == IF c = "PackedConformationDataset" THEN PackDataByMol(recs) ELSE <<>>
       IN  /\ new_data = [k \in 1..Len(packed) |-> Len(recs) + k]
           /\ heap = recs \o packed
    /\ snapshot = heap
    /\ transform = cfg.transform
    /\ cutoff = cfg.cutoff
    /\ max_residue = cfg.max_residue
    /\ fix_subgraph = cfg.fix_subgraph
    /\ rng = g
    /\ wk = [w \in Workers |-> IF w \in active THEN IdleWorker ELSE OffWorker]

\* one worker sampling from one stored protein
InitSample ==
    /\ \E rec \in ProteinRecords, cfg \in DatasetConfigs, g \in 0..(RngPeriod - 1) :
          /\ cfg.fix_subgraph => g = 0
          /\ Constructed("SidechainConformationDataset", <<rec>>, cfg, g, {"w1"})
    /\ BuilderIdle
    /\ SplitIdle
    /\ PrepareIdle

DatasetNext ==
    \E w \in Workers :
        \/ \E i \in 1..Len(Store) : Clone(w, i)
        \/ SelectCenter(w)
        \/ SampleSubgraph(w)
        \/ ApplyTransform(w)
        \/ Release(w)

SpecSample == InitSample /\ [][DatasetNext]_vars

\* records of small-molecule conformers, as preprocess_GEOM_dataset stores
\* them: rdmol_to_data plus the energy labels
ConformerOf(tpl, base) ==
    RdmolToData(ProteinOf(<<[tpl |-> tpl, base |-> base, step |-> 1]>>)).val
        @@ [totalenergy |-> base[3], boltzmannweight |-> 1]

ConformerPool ==
    {ConformerOf("GLY", <<0, 0, 0>>), ConformerOf("GLY", <<0, 0, 14>>),
     ConformerOf("FRG", <<0, 0, 0>>)}

\* a few stored proteins
StoredProteinPool ==
    {PdbToData(ProteinOf(rs)).val :
        rs \in {<<[tpl |-> "ALA", base |-> <<0, 0, 0>>, step |-> 1],
                  [tpl |-> "GLY", base |-> <<6, 8, 0>>, step |-> 1]>>,
                <<[tpl |-> "GLY", base |-> <<0, 0, 0>>, step |-> 1],
                  [tpl |-> "ALA", base |-> <<0, 0, 14>>, step |-> 2]>>}}

\* records in a store of the concurrent specification
MaxStore == 2

StoresOver(pool) == UNION {[1..n -> pool] : n \in 1..MaxStore}

\* several workers reading one dataset object of any of the three classes
InitStore ==
    /\ \/ \E recs \in StoresOver(StoredProteinPool), cfg \in DatasetConfigs,
             g \in 0..(RngPeriod - 1) :
             Constructed("SidechainConformationDataset", recs, cfg, g, Workers)
       \/ \E recs \in StoresOver(ConformerPool), cfg \in DatasetConfigs,
             c \in {"ConformationDataset", "PackedConformationDataset"} :
             /\ cfg.cutoff = DefaultCutoff
             /\ Constructed(c, recs, cfg, 0, Workers)
    /\ BuilderIdle
    /\ SplitIdle
    /\ PrepareIdle

SpecStore == InitStore /\ [][DatasetNext]_vars

\* the builders
InitBuild ==
    /\ mol0 \in BuilderInputs \cup UnbondedInputs
    /\ mol = mol0
    /\ built = Pending
    /\ DatasetIdle
    /\ SplitIdle
    /\ PrepareIdle

BuildNext ==
    \/ \E r \in 0..(2 * MaxResidues), rev \in BOOLEAN, flip \in SUBSET (1..2) :
          ReorderBonds(r, rev, flip)
    \/ PdbToDataCall
    \/ RdmolToDataCall

SpecBuild == InitBuild /\ [][BuildNext]_vars

\* the splitter
InitSplit == SplitIdle /\ DatasetIdle /\ BuilderIdle /\ PrepareIdle

SplitNext ==
    \E n \in 0..MaxSize, t \in 0..MaxSize, v \in 0..MaxSize, seed \in 0..(MaxSeed - 1) :
        GetIdxSplit(n, t, v, seed)

SpecSplit == InitSplit /\ [][SplitNext]_vars

\* conformers as preprocess_GEOM_dataset_with_fixed_num_conf stores them:
\* with the energy labels and the index of their molecule
IndexedConformerOf(tpl, base, i) == ConformerOf(tpl, base) @@ [idx |-> i]

\* two conformers of molecule 0, and molecules 1 and 2; molecules 0 and 1
\* have the same smiles
IndexedConformerPool ==
    {IndexedConformerOf("GLY", <<0, 0, 0>>, 0), IndexedConformerOf("GLY", <<0, 0, 14>>, 0),
     IndexedConformerOf("GLY", <<6, 8, 0>>, 1), IndexedConformerOf("FRG", <<0, 0, 0>>, 2)}

\* one worker reading a PackedConformationDataset over indexed conformers
InitPack ==
    /\ \E recs \in StoresOver(IndexedConformerPool), cfg \in DatasetConfigs :
          /\ cfg.cutoff = DefaultCutoff
          /\ Constructed("PackedConformationDataset", recs, cfg, 0, {"w1"})
    /\ BuilderIdle
    /\ SplitIdle
    /\ PrepareIdle

\* PackedConformationDataset.__getitem__: clone, transform, return
PackNext ==
    \E w \in Workers :
        \/ \E i \in 1..Len(Store) : Clone(w, i)
        \/ ApplyTransform(w)
        \/ Release(w)

SpecPack == InitPack /\ [][PackNext]_vars

(***************************************************************************)
(* prepare_pdb2 (prepare_pdblarge and prepare_pdb_valtest have the same    *)
(* loop): every structure that passes the mask filter goes through         *)
(* pdb_to_data; the records are pickled after the loop.  The dataset is    *)
(* then loaded from the pickle and sampled.                                *)
(***************************************************************************)
\* structures of a build job
MaxJob == 2

TwoResidues(tpl1, tpl2, base2, step2) ==
    ProteinOf(<<[tpl |-> tpl1, base |-> <<0, 0, 0>>, step |-> 1],
                [tpl |-> tpl2, base |-> base2, step |-> step2]>>)

\* a file whose atom line k names another atom than the parser read
Misannotated(m, k) == [m EXCEPT !.ref[k].name = "XX"]

\* a file whose atom line k carries another residue number
Misnumbered(m, k) == [m EXCEPT !.ref[k].resnum = @ + 1]

\* the files a job meets: two sound proteins (one numbered with a gap), one
\* of backbone atoms only, two whose annotation disagrees with the parsed
\* atoms, one whose residue numbers span the builder's buffer, one unreadable
JobPool ==
    {TwoResidues("ALA", "GLY", <<6, 8, 0>>, 1),
     TwoResidues("GLY", "ALA", <<0, 0, 14>>, 2),
     TwoResidues("GLY", "GLY", <<6, 8, 0>>, 1),
     Misannotated(TwoResidues("ALA", "GLY", <<6, 8, 0>>, 1), 2),
     Misnumbered(TwoResidues("GLY", "ALA", <<0, 0, 14>>, 1), 4),
     TwoResidues("ALA", "FRG", <<6, 8, 0>>, ResidueBufferSize),
     UnparsableFile}

JobInputs == UNION {[1..n -> JobPool] : n \in 1..MaxJob}

\* one iteration of the loop (404-414): build, then append or count
PrepareIteration ==
    /\ job.pc = "loop"
    /\ job.i <= Len(job.inputs)
    /\ LET d == PdbToData(job.inputs[job.i]) IN
       job' = IF d.tag = "raise"
              THEN [job EXCEPT !.pc = "aborted", !.err = d.err]
              ELSE IF d.tag = "Data"
              THEN [job EXCEPT !.i = @ + 1, !.train_data = Append(@, d.val)]
              ELSE [job EXCEPT !.i = @ + 1, !.cnt_fail = @ + 1]
    /\ UNCHANGED <<dsvars, bvars, svars, batch, collated, geom, acc>>

\* after the loop: pickle.dump(train_data, fout)
PrepareSave ==
    /\ job.pc = "loop"
    /\ job.i > Len(job.inputs)
    /\ job' = [job EXCEPT !.pc = "saved"]
    /\ UNCHANGED <<dsvars, bvars, svars, batch, collated, geom, acc>>

\* SidechainConformationDataset(path, ...) over the pickled records
LoadDataset(cfg, g) ==
    /\ job.pc = "saved"
    /\ job' = [job EXCEPT !.pc = "loaded"]
    /\ cls' = "SidechainConformationDataset"
    /\ data' = [k \in 1..Len(job.train_data) |-> k]
    /\ new_data' = <<>>
    /\ heap' = job.train_data
    /\ snapshot' = job.train_data
    /\ transform' = cfg.transform
    /\ cutoff' = cfg.cutoff
    /\ max_residue' = cfg.max_residue
    /\ fix_subgraph' = cfg.fix_subgraph
    /\ rng' = g
    /\ wk' = [w \in Workers |-> IF w = "w1" THEN IdleWorker ELSE OffWorker]
    /\ UNCHANGED <<bvars, svars, batch, collated, geom, acc>>

InitPrepare ==
    /\ \E inputs \in JobInputs :
          job = [pc |-> "loop", inputs |-> inputs, i |-> 1, train_data |-> <<>>,
                 cnt_fail |-> 0, err |-> ""]
    /\ batch = <<>>
    /\ collated = Pending
    /\ geom = NoGeom
    /\ acc = NoAcc
    /\ DatasetIdle
    /\ BuilderIdle
    /\ SplitIdle

PrepareNext ==
    \/ PrepareIteration
    \/ PrepareSave
    \/ \E cfg \in DatasetConfigs, g \in 0..(RngPeriod - 1) : LoadDataset(cfg, g)
    \/ DatasetNext

SpecPrepare == InitPrepare /\ [][PrepareNext]_vars

(***************************************************************************)
(* preprocess_GEOM_dataset and preprocess_GEOM_dataset_with_fixed_num_conf *)
(* ("fixed"): the loop over the molecule pickles, which selects the        *)
(* conformers of each molecule, builds their records and puts them into    *)
(* one of train_data, val_data, test_data.                                 *)
(***************************************************************************)
\* molecules of a preprocessing run
MaxMols == 2

\* a molecule pickle: mol.get('smiles'), mol.get('uniqueconfs') and
\* mol.get('conformers'), each conformer with its geometry and labels
MolPickle(tpl, uniqueconfs, confs) ==
    [tpl |-> tpl, uniqueconfs |-> uniqueconfs,
     conformers |-> [k \in 1..Len(confs) |->
                        [base |-> confs[k][1], boltzmannweight |-> confs[k][2],
                         totalenergy |-> confs[k][3]]]]

\* one, two and three conformers; a pickle that announces more conformers
\* than it has, and one that announces none
MolPickles ==
    {MolPickle("GLY", 1, <<<<<<0, 0, 0>>, 5, 1>>>>),
     MolPickle("ALA", 2, <<<<<<0, 0, 0>>, 3, 2>>, <<<<0, 0, 14>>, 7, 1>>>>),
     MolPickle("FRG", 3, <<<<<<0, 0, 0>>, 1, 3>>, <<<<6, 8, 0>>, 9, 1>>, <<<<0, 0, 14>>, 4, 2>>>>),
     MolPickle("ALA", 2, <<<<<<6, 8, 0>>, 5, 1>>>>),
     MolPickle("FRG", 0, <<<<<<0, 0, 0>>, 5, 1>>>>)}

\* pickle_path_list: the keys of the summary are distinct smiles
MolLists ==
    {l \in UNION {[1..n -> MolPickles] : n \in 1..MaxMols} :
        \A j, k \in 1..Len(l) : l[j].tpl = l[k].tpl => j = k}

\* train_size, in tenths
TrainTenths == {0, 5, 8, 10}

\* (-all_weights).argsort()[:n]: the positions (0-based) of the n largest
\* weights, largest first
RECURSIVE TopByWeight(_, _, _)
TopByWeight(confs, n, taken) ==
    LET left == {k \in 0..(Len(confs) - 1) : k \notin taken} IN
    IF n = 0 \/ left = {} THEN <<>>
    ELSE LET best == CHOOSE k \in left :
                         \A j \in left : At(confs, j).boltzmannweight <= At(confs, k).boltzmannweight
         IN  <<best>> \o TopByWeight(confs, n - 1, taken \cup {best})

\* conf_ids: all conformers, or the n most probable ones
ConfIds(m, n, fixed) ==
    IF (IF fixed THEN m.uniqueconfs = n ELSE m.uniqueconfs <= n)
    THEN Arange(m.uniqueconfs)
    ELSE TopByWeight(m.conformers, n, {})

\* data = rdmol_to_data(rd_mol) with the labels (and idx in the fixed variant)
GeomData(m, conf_id, fixed, i) ==
    LET c == At(m.conformers, conf_id) IN
    RdmolToData(ProteinOf(<<[tpl |-> m.tpl, base |-> c.base, step |-> 1]>>)).val
        @@ [totalenergy |-> c.totalenergy, boltzmannweight |-> c.boltzmannweight]
        @@ (IF fixed THEN [idx |-> i] ELSE <<>>)

\* int(x) of the float product n * f for the exact value num / den: the
\* floor, or one less when the exact value is an integer and the float
\* product falls just below it
IntOfProduct(num, den) ==
    {num \div den} \cup (IF num % den = 0 /\ num >= den THEN {(num \div den) - 1} ELSE {})

\* the permutations of 0..n-1 (random.shuffle(split_indexes))
Shuffles(n) == {f \in [1..n -> 0..(n - 1)] : \A j, k \in 1..n : f[j] = f[k] => j = k}

\* index2split for the shuffled indexes and the cut positions a <= b
Index2Split(split_indexes, a, b) ==
    [x \in 0..(Len(split_indexes) - 1) |->
        LET p == (CHOOSE k \in 1..Len(split_indexes) : split_indexes[k] = x) - 1
        IN  IF p < a THEN "train" ELSE IF p < b THEN "val" ELSE "test"]

\* counters that leave the total out
AddCountsNoTotal(counts, label, k) ==
    [counts EXCEPT ![IF label = "train" THEN 2 ELSE IF label = "val" THEN 3 ELSE 4] = @ + k]

\* num_mols += [1, 1, 0, 0] and the like: (tot, train, val, test)
AddCounts(counts, label, k) ==
    [counts EXCEPT ![1] = @ + k,
                   ![IF label = "train" THEN 2 ELSE IF label = "val" THEN 3 ELSE 4] = @ + k]

\* the code before the loop: empty lists, zero counters, and in the fixed
\* variant index2split
GeomStart ==
    /\ geom.pc = "start"
    /\ LET n == Len(geom.mols)
           t == geom.train_tenths
       IN  \E split_indexes \in Shuffles(n), a \in IntOfProduct(n * t, 10),
              b \in IntOfProduct(n * (10 + t), 20) :
              /\ a <= b
              /\ geom' = [geom EXCEPT !.pc = "loop",
                                      !.index2split = IF geom.fixed
                                                      THEN Index2Split(split_indexes, a, b)
                                                      ELSE <<>>]
    /\ UNCHANGED <<dsvars, bvars, svars, job, batch, collated, acc>>

\* one iteration of the loop over pickle_path_list; the split label is
\* index2split[i] in the fixed variant, else drawn (eps = np.random.rand())
GeomIteration(drawn) ==
    /\ geom.pc = "loop"
    /\ geom.i < Len(geom.mols)
    /\ LET i     == geom.i
           m     == At(geom.mols, i)
           ids   == ConfIds(m, geom.n_conf, geom.fixed)
           datas == [k \in 1..Len(ids) |-> GeomData(m, ids[k], geom.fixed, i)]
           label == IF geom.fixed THEN geom.index2split[i] ELSE drawn
       IN  /\ geom.fixed => drawn = "train"
           /\ (~geom.fixed /\ drawn # "train") => geom.train_tenths < 10
           /\ geom' =
                 IF m.uniqueconfs > Len(m.conformers) \/ m.uniqueconfs <= 0
                 THEN [geom EXCEPT !.i = @ + 1, !.bad_case = @ + 1]
                 ELSE IF geom.fixed /\ Len(datas) # geom.n_conf
                 THEN [geom EXCEPT !.pc = "aborted"]
                 ELSE [geom EXCEPT
                          !.i = @ + 1,
                          !.train_data = IF label = "train" THEN @ \o datas ELSE @,
                          !.val_data = IF label = "val" THEN @ \o datas ELSE @,
                          !.test_data = IF label = "test" THEN @ \o datas ELSE @,
                          !.num_mols = AddCounts(@, label, 1),
                          !.num_confs = AddCounts(@, label, Len(datas))]
    /\ UNCHANGED <<dsvars, bvars, svars, job, batch, collated, acc>>

\* return train_data, val_data, test_data
GeomReturn ==
    /\ geom.pc = "loop"
    /\ geom.i = Len(geom.mols)
    /\ geom' = [geom EXCEPT !.pc = "returned"]
    /\ UNCHANGED <<dsvars, bvars, svars, job, batch, collated, acc>>

InitGeom ==
    /\ \E mols \in MolLists, fixed \in BOOLEAN, n_conf \in 1..2, t \in TrainTenths :
          geom = [pc |-> "start", mols |-> mols, fixed |-> fixed, n_conf |-> n_conf,
                  train_tenths |-> t, i |-> 0, index2split |-> <<>>,
                  train_data |-> <<>>, val_data |-> <<>>, test_data |-> <<>>,
                  num_mols |-> <<0, 0, 0, 0>>, num_confs |-> <<0, 0, 0, 0>>,
                  bad_case |-> 0]
    /\ acc = NoAcc
    /\ job = NoJob
    /\ batch = <<>>
    /\ collated = Pending
    /\ DatasetIdle
    /\ BuilderIdle
    /\ SplitIdle

GeomNext ==
    \/ GeomStart
    \/ \E drawn \in {"train", "val", "test"} : GeomIteration(drawn)
    \/ GeomReturn

SpecGeom == InitGeom /\ [][GeomNext]_vars

(***************************************************************************)
(* accumulate_grad_from_subgraph: the decomposition of one protein into    *)
(* subgraphs that cover its alpha-carbons. The call is followed line by    *)
(* line from its entry.                                                    *)
(***************************************************************************)
\* the attributes of a torch.Tensor that the function asks for
TensorAttributes == {"device", "size", "norm", "bool", "sum"}

\* getattr(pos, name) on a tensor
TensorGetAttr(name) ==
    IF name \in TensorAttributes THEN Some(name) ELSE Raised("AttributeError")

\* the arguments of a call
AccumulateArgs ==
    [rec : ProteinRecords, cutoff : {0, 5, DefaultCutoff},
     max_residue : {2, DefaultMaxResidue}, batch_size : {1, 8}]

\* all_subgraphs = []; dummy_index = torch.arange(pos.size(0))
AccumulateEnter ==
    /\ acc.pc = "call"
    /\ acc' = [acc EXCEPT !.pc = "prepare",
                          !.all_subgraphs = <<>>,
                          !.dummy_index = Arange(Len(acc.args.rec.pos))]
    /\ UNCHANGED <<dsvars, bvars, svars, job, batch, collated, geom>>

\* is_covered = torch.zeros(pos.size(0), device=pos.deivce).bool();
\* is_alpha_and_uncovered = is_alpha & (~is_covered). The keyword argument
\* is evaluated first: the attribute asked of pos is "deivce"
AccumulatePrepare ==
    /\ acc.pc = "prepare"
    /\ LET device == TensorGetAttr("deivce")
           N      == Len(acc.args.rec.pos)
       IN  acc' = IF device.tag = "raise"
                  THEN [acc EXCEPT !.pc = "raised", !.err = device.err]
                  ELSE [acc EXCEPT !.pc = "loop",
                                   !.is_covered = [k \in 1..N |-> FALSE],
                                   !.is_alpha_and_uncovered = acc.args.rec.is_alpha]
    /\ UNCHANGED <<dsvars, bvars, svars, job, batch, collated, geom>>

InitAccumulate ==
    /\ \E args \in AccumulateArgs :
          acc = [pc |-> "call", args |-> args, all_subgraphs |-> <<>>,
                 dummy_index |-> <<>>, is_covered |-> <<>>,
                 is_alpha_and_uncovered |-> <<>>, err |-> ""]
    /\ job = NoJob
    /\ batch = <<>>
    /\ collated = Pending
    /\ geom = NoGeom
    /\ DatasetIdle
    /\ BuilderIdle
    /\ SplitIdle

\* line 1225 raises for every tensor, so the call never has pc = "loop": the
\* covering loop (1227-1259) and the model runs after it are not reached
AccumulateNext ==
    \/ AccumulateEnter
    \/ AccumulatePrepare

SpecAccumulate == InitAccumulate /\ [][AccumulateNext]_vars

(***************************************************************************)
(* Batches: the loader fetches the samples of a batch one by one and hands *)
(* the list to SidechainConformationDataset.collate_fn.                    *)
(***************************************************************************)
\* samples per batch
MaxBatch == 2

\* what a finished call handed to the loader: the record itself, or None
FetchedSample(w) == IF wk[w].ret.tag = "Data" THEN Some(heap[wk[w].ret.val]) ELSE wk[w].ret

\* the loader takes the sample of a finished call into the batch
Fetch(w) ==
    /\ wk[w].pc = "done"
    /\ wk[w].ret.tag \in {"Data", "None"}
    /\ collated = Pending
    /\ Len(batch) < MaxBatch
    /\ batch' = Append(batch, FetchedSample(w))
    /\ LET live == Range(data) \cup Range(new_data)
                       \cup UNION {Held(v) : v \in Workers \ {w}}
       IN  heap' = [o \in DOMAIN heap \cap live |-> heap[o]]
    /\ wk' = [wk EXCEPT ![w] = IdleWorker]
    /\ UNCHANGED <<data, new_data, cls, transform, cutoff, max_residue, fix_subgraph, rng,
                   snapshot, bvars, svars, job, collated, geom, acc>>

\* batch = [_ for _ in data if _ is not None]
NotNone(samples) == SelectSeq(samples, LAMBDA s : s.tag # "None")

\* Batch.from_data_list of a non-empty list: the fields concatenated,
\* edge_index shifted by the number of atoms before, one graph number per atom
RECURSIVE CatField(_, _)
CatField(list, f) == IF list = <<>> THEN <<>> ELSE Head(list)[f] \o CatField(Tail(list), f)

RECURSIVE CatEdgeIndex(_, _)
CatEdgeIndex(list, offset) ==
    IF list = <<>> THEN <<>>
    ELSE [k \in 1..Len(Head(list).edge_index) |->
             <<Head(list).edge_index[k][1] + offset, Head(list).edge_index[k][2] + offset>>]
         \o CatEdgeIndex(Tail(list), offset + Len(Head(list).pos))

RECURSIVE BatchVector(_, _)
BatchVector(list, g) ==
    IF list = <<>> THEN <<>>
    ELSE [k \in 1..Len(Head(list).pos) |-> g] \o BatchVector(Tail(list), g + 1)

\* the exception Batch.from_data_list([]) ends with: data_list[0] in some
\* releases of the library, set.union() without arguments in others
EmptyListErrors == {"IndexError", "TypeError"}

\* the outcomes of Batch.from_data_list(list)
FromDataList(list) ==
    IF list = <<>> THEN {Raised(e) : e \in EmptyListErrors}
    ELSE {Some([atom_type    |-> CatField(list, "atom_type"),
                pos          |-> CatField(list, "pos"),
                edge_index   |-> CatEdgeIndex(list, 0),
                edge_type    |-> CatField(list, "edge_type"),
                is_sidechain |-> CatField(list, "is_sidechain"),
                atom2res     |-> CatField(list, "atom2res"),
                batch        |-> BatchVector(list, 0),
                num_graphs   |-> Len(list)])}

\* collate_fn(data)
CollateFn ==
    /\ collated = Pending
    /\ Len(batch) >= 1
    /\ LET b == NotNone(batch) IN
       collated' \in FromDataList([k \in 1..Len(b) |-> b[k].val])
    /\ UNCHANGED <<dsvars, bvars, svars, job, batch, geom, acc>>

\* one worker fills batches from a loaded dataset
InitBatch ==
    /\ \E recs \in StoresOver(StoredProteinPool), cfg \in DatasetConfigs,
          g \in 0..(RngPeriod - 1) :
          Constructed("SidechainConformationDataset", recs, cfg, g, {"w1"})
    /\ BuilderIdle
    /\ SplitIdle
    /\ PrepareIdle

BatchNext ==
    \/ DatasetNext
    \/ \E w \in Workers : Fetch(w)
    \/ CollateFn

SpecBatch == InitBatch /\ [][BatchNext]_vars

(***************************************************************************)
(* Properties.  The definitions below describe the sampler's result from   *)
(* the stored record and the seed atom alone.                              *)
(***************************************************************************)
Sidechain == cls = "SidechainConformationDataset"

\* the stored record a worker's call reads
Src(w) == heap[Store[wk[w].idx]]

\* the worker has built subgraph_data and not yet transformed it
HasSubgraph(w) == Sidechain /\ wk[w].pc = "sampled"

Sub(w) == heap[wk[w].ret.val]

AtomIds(rec) == 0..(Len(rec.pos) - 1)

\* atom i of the source lies within the cutoff of the seed atom
NearSeed(w, i) ==
    LET p == At(Src(w).pos, wk[w].center)
        q == At(Src(w).pos, i)
        dx == p[1] - q[1]
        dy == p[2] - q[2]
        dz == p[3] - q[3]
    IN  cutoff >= 0 /\ dx * dx + dy * dy + dz * dz <= cutoff * cutoff

NearAtomsOf(w, r) == {i \in AtomIds(Src(w)) : At(Src(w).atom2res, i) = r /\ NearSeed(w, i)}

\* the atoms whose residue has a near atom
KeptAtoms(w) == {i \in AtomIds(Src(w)) : NearAtomsOf(w, At(Src(w).atom2res, i)) # {}}

\* number of kept atoms before atom i
NewIndex(w, i) == Cardinality({k \in KeptAtoms(w) : k < i})

\* how many atoms of rec carry residue id r
ResidueSize(rec, r) == Cardinality({k \in 1..Len(rec.atom2res) : rec.atom2res[k] = r})

\* C1: residue completeness. Every residue id that occurs in a sampled
\* subgraph occurs there with all the atoms it has in the source record.
C1_ResidueCompleteness ==
    \A w \in Workers :
        HasSubgraph(w) =>
            \A r \in Range(Sub(w).atom2res) : ResidueSize(Sub(w), r) = ResidueSize(Src(w), r)

\* a residue was completed: a kept atom that is itself beyond the cutoff
C1_Witness ==
    \E w \in Workers :
        /\ HasSubgraph(w)
        /\ \E i \in KeptAtoms(w) : ~NearSeed(w, i)

\* C2: the kept set is exact. A residue with at least one near atom is in
\* the subgraph with all its atoms, whatever the number of its near atoms,
\* and a residue with no near atom contributes no atom.
C2_KeptSetExact ==
    \A w \in Workers :
        HasSubgraph(w) =>
            /\ \A r \in Range(Src(w).atom2res) :
                  ResidueSize(Sub(w), r) =
                      IF NearAtomsOf(w, r) # {} THEN ResidueSize(Src(w), r) ELSE 0
            /\ Len(Sub(w).atom2res) = Cardinality(KeptAtoms(w))

\* two kept residues, one with a single near atom (at the cutoff exactly or
\* closer) and one with several
C2_Witness ==
    \E w \in Workers :
        /\ HasSubgraph(w)
        /\ \E r1, r2 \in Range(Src(w).atom2res) :
              /\ Cardinality(NearAtomsOf(w, r1)) = 1
              /\ Cardinality(NearAtomsOf(w, r2)) >= 2

\* C3: reindex consistency for atoms. The code's old->new map sends the kept
\* atoms one-to-one and in order onto 0..M-1, and the subgraph's pos,
\* atom_type, is_sidechain and atom2res at the new index are the source's
\* values at the old index.
C3_ReindexConsistency ==
    \A w \in Workers :
        HasSubgraph(w) =>
            LET m    == wk[w].mapping
                kept == {i \in AtomIds(Src(w)) : At(m, i) # -1}
                M    == Len(Sub(w).pos)
            IN  /\ Len(m) = Len(Src(w).pos)
                /\ Cardinality(kept) = M
                /\ {At(m, i) : i \in kept} = 0..(M - 1)
                /\ \A i, j \in kept : i < j => At(m, i) < At(m, j)
                /\ Len(Sub(w).atom_type) = M
                /\ Len(Sub(w).is_sidechain) = M
                /\ Len(Sub(w).atom2res) = M
                /\ \A i \in kept :
                      /\ At(Sub(w).pos, At(m, i)) = At(Src(w).pos, i)
                      /\ At(Sub(w).atom_type, At(m, i)) = At(Src(w).atom_type, i)
                      /\ At(Sub(w).is_sidechain, At(m, i)) = At(Src(w).is_sidechain, i)
                      /\ At(Sub(w).atom2res, At(m, i)) = At(Src(w).atom2res, i)

\* a subgraph of several atoms whose numbering differs from the source's
C3_Witness ==
    \E w \in Workers :
        /\ HasSubgraph(w)
        /\ Len(Sub(w).pos) >= 2
        /\ \E i \in AtomIds(Src(w)) : At(wk[w].mapping, i) \notin {-1, i}

\* positions (in the source's edge list) of the edges between kept atoms
KeptEdges(w) ==
    {k \in 1..Len(Src(w).edge_index) :
        /\ Src(w).edge_index[k][1] \in KeptAtoms(w)
        /\ Src(w).edge_index[k][2] \in KeptAtoms(w)}

\* C4: edge filtering and remapping. The subgraph's edges are the source's
\* edges with both endpoints kept, in the source's order, each endpoint
\* renumbered and the edge_type unchanged; every endpoint is in 0..M-1.
C4_EdgeFilterRemap ==
    \A w \in Workers :
        HasSubgraph(w) =>
            /\ Len(Sub(w).edge_index) = Cardinality(KeptEdges(w))
            /\ Len(Sub(w).edge_type) = Cardinality(KeptEdges(w))
            /\ \A k \in KeptEdges(w) :
                  LET j == Cardinality({l \in KeptEdges(w) : l <= k}) IN
                  /\ Sub(w).edge_index[j] = <<NewIndex(w, Src(w).edge_index[k][1]),
                                             NewIndex(w, Src(w).edge_index[k][2])>>
                  /\ Sub(w).edge_type[j] = Src(w).edge_type[k]
            /\ \A j \in 1..Len(Sub(w).edge_index) :
                  /\ Sub(w).edge_index[j][1] \in 0..(Len(Sub(w).pos) - 1)
                  /\ Sub(w).edge_index[j][2] \in 0..(Len(Sub(w).pos) - 1)

\* a surviving edge joins residues with different numbers of near atoms
C4_Witness ==
    \E w \in Workers :
        /\ HasSubgraph(w)
        /\ \E k \in KeptEdges(w) :
              LET r1 == At(Src(w).atom2res, Src(w).edge_index[k][1])
                  r2 == At(Src(w).atom2res, Src(w).edge_index[k][2])
              IN  Cardinality(NearAtomsOf(w, r1)) # Cardinality(NearAtomsOf(w, r2))

\* the call of get_idx_split has returned a split dictionary
SplitReturned == split_ret.tag = "Data"

\* C5: split partition law. The three index lists are pairwise disjoint,
\* hold no index twice and together hold exactly 0..data_size-1; when
\* train_size + valid_size <= data_size their lengths are train_size,
\* valid_size and the rest.
C5_SplitPartition ==
    SplitReturned =>
        LET tr == split_ret.val.train
            va == split_ret.val.valid
            te == split_ret.val.test
            n  == split_args.data_size
        IN  /\ Range(tr) \cap Range(va) = {}
            /\ Range(tr) \cap Range(te) = {}
            /\ Range(va) \cap Range(te) = {}
            /\ Range(tr) \cup Range(va) \cup Range(te) = 0..(n - 1)
            /\ Len(tr) + Len(va) + Len(te) = n
            /\ split_args.train_size + split_args.valid_size <= n =>
                  /\ Len(tr) = split_args.train_size
                  /\ Len(va) = split_args.valid_size
                  /\ Len(te) = n - split_args.train_size - split_args.valid_size

\* a split into three non-empty parts under a seed that permutes the range
C5_Witness ==
    /\ SplitReturned
    /\ split_ret.val.train # <<>>
    /\ split_ret.val.valid # <<>>
    /\ split_ret.val.test # <<>>
    /\ split_ret.val.train \o split_ret.val.valid \o split_ret.val.test
           # Arange(split_args.data_size)

\* C6: the precondition train_size + valid_size <= data_size is enforced: a
\* call that violates it fails and returns no split dictionary.
C6_SplitPreconditionEnforced ==
    (split_ret # Pending /\ split_args.train_size + split_args.valid_size > split_args.data_size)
        => split_ret.tag = "raise"

\* a finished call of SidechainConformationDataset.__getitem__ that chose a
\* seed atom and whose residue ids are all below the ceiling
ReachedGuard(w) ==
    /\ Sidechain
    /\ wk[w].pc = "done"
    /\ wk[w].center >= 0
    /\ \A i \in AtomIds(Src(w)) : At(Src(w).atom2res, i) < max_residue

KeptSidechain(w) == {i \in KeptAtoms(w) : At(Src(w).is_sidechain, i)}

\* C7: emptiness guard. A call returns None exactly when no kept atom is a
\* sidechain atom, without raising and without invoking the transform;
\* otherwise it returns a record, which has a sidechain atom and has been
\* through the transform if there is one.
C7_EmptinessGuard ==
    \A w \in Workers :
        ReachedGuard(w) =>
            /\ wk[w].ret.tag # "raise"
            /\ (wk[w].ret = None) <=> (KeptSidechain(w) = {})
            /\ wk[w].ret = None => ~wk[w].transformed
            /\ wk[w].ret # None =>
                  /\ wk[w].ret.tag = "Data"
                  /\ \E k \in 1..Len(Sub(w).is_sidechain) : Sub(w).is_sidechain[k]
                  /\ wk[w].transformed = (transform # "none")

\* None returned for a record that has sidechain atoms, beyond the cutoff,
\* by a dataset that has a transform
C7_Witness ==
    \E w \in Workers :
        /\ ReachedGuard(w)
        /\ wk[w].ret = None
        /\ transform # "none"
        /\ \E i \in AtomIds(Src(w)) : At(Src(w).is_sidechain, i)

StoredObjects == Range(data) \cup Range(new_data)

\* C8: access never mutates the store. Every stored record (of self.data and
\* of self.new_data) equals its value after construction, and the object a
\* call works on, transforms and returns is not a stored object.
C8_StoreNeverMutated ==
    /\ DOMAIN snapshot = StoredObjects
    /\ \A o \in StoredObjects : heap[o] = snapshot[o]
    /\ \A w \in Workers :
          /\ wk[w].data \notin StoredObjects
          /\ wk[w].ret.tag = "Data" => wk[w].ret.val \notin StoredObjects

\* a call returned a record after an in-place transform, and the returned
\* record now differs from the stored one it was cloned from
C8_Witness ==
    \E w \in Workers :
        /\ cls = "PackedConformationDataset"
        /\ wk[w].pc = "done"
        /\ wk[w].transformed
        /\ heap[wk[w].ret.val] # heap[Store[wk[w].idx]]
        /\ heap[wk[w].ret.val].num_pos_ref = 2

\* what a finished call returned: the record, None or the exception
Returned(w) == IF wk[w].ret.tag = "Data" THEN Some(heap[wk[w].ret.val]) ELSE wk[w].ret

\* C9: concurrent reads are safe. Under every interleaving a call of
\* SidechainConformationDataset.__getitem__ returns what it would return
\* run alone from the state it started in (no step writes shared state, the
\* random generator included).
C9_ConcurrentReadsSafe ==
    \A w \in Workers :
        (Sidechain /\ wk[w].pc = "done") => Returned(w) = GetItemAlone(Src(w), wk[w].rng0)

\* the part of C9 that holds: record store and packed list are never written
C9_StoreNotWritten == [][data' = data /\ new_data' = new_data
                          /\ \A o \in StoredObjects : heap'[o] = heap[o]]_vars

\* the builder returned a record
Built == built.tag = "Data"

\* C10: index validity of built records. Each bond gives the two directed
\* edges with its type, all endpoints are atoms, edge_index ascends strictly
\* by source * N + target with edge_type aligned, and the record is the one
\* built from the bond table in its original order.
C10_IndexValidity ==
    Built =>
        LET N  == Len(built.val.pos)
            ei == built.val.edge_index
            et == built.val.edge_type
        IN  /\ Len(ei) = 2 * Len(mol.bonds)
            /\ Len(et) = Len(ei)
            /\ \A b \in Range(mol.bonds) :
                  /\ \E k \in 1..Len(ei) : ei[k] = <<b.begin, b.end>> /\ et[k] = b.type
                  /\ \E k \in 1..Len(ei) : ei[k] = <<b.end, b.begin>> /\ et[k] = b.type
            /\ \A k \in 1..Len(ei) : ei[k][1] \in 0..(N - 1) /\ ei[k][2] \in 0..(N - 1)
            /\ \A k \in 1..(Len(ei) - 1) :
                  ei[k][1] * N + ei[k][2] < ei[k + 1][1] * N + ei[k + 1][2]
            /\ built = IF "is_alpha" \in DOMAIN built.val THEN PdbToData(mol0)
                       ELSE RdmolToData(mol0)

\* a record built from a reordered bond table with bonds of two types
C10_Witness ==
    /\ Built
    /\ mol # mol0
    /\ Len(mol.bonds) >= 3
    /\ \E b1, b2 \in Range(mol.bonds) : b1.type # b2.type

\* C11: zero-bond rejection. A builder called on a structure without bonds
\* returns no record (it signals a rejection), for pdb_to_data and for
\* rdmol_to_data, so every built record has at least one edge.
C11_ZeroBondRejection ==
    /\ (built # Pending /\ mol.bonds = <<>>) => built.tag # "Data"
    /\ Built => Len(built.val.edge_index) >= 1

\* the part of C11 that holds: pdb_to_data never returns a record without edges
C11_ProteinRecordsHaveEdges ==
    (Built /\ "is_alpha" \in DOMAIN built.val) => Len(built.val.edge_index) >= 1
\* pdb_to_data has returned (rdmol_to_data always returns a record with smiles)
ReturnedByPdbToData == built # Pending /\ ~(Built /\ "smiles" \in DOMAIN built.val)

\* pdb_to_data has returned a record
BuiltProtein == Built /\ "is_alpha" \in DOMAIN built.val

\* C12: zero-sidechain rejection. pdb_to_data returns None for a structure
\* whose atoms are all named N, CA, C or O, so every protein record it returns
\* has at least one sidechain atom.
C12_ZeroSidechainRejection ==
    /\ (ReturnedByPdbToData /\ \A a \in Range(mol.atoms) : a.name \in {"N", "CA", "C", "O"})
          => built.tag = "None"
    /\ BuiltProtein =>
          \E k \in 1..Len(mol.atoms) :
              /\ mol.atoms[k].name \notin {"N", "CA", "C", "O"}
              /\ built.val.is_sidechain[k]

\* pdb_to_data rejected a bonded structure of two residues without sidechain
C12_Witness ==
    /\ ReturnedByPdbToData
    /\ built.tag = "None"
    /\ Len(mol.bonds) > 0
    /\ Len(mol.smiles) = 2
    /\ \A a \in Range(mol.atoms) : a.name \in {"N", "CA", "C", "O"}

\* C17: residue normalization. In every record of pdb_to_data the atom2res
\* values start at 0 and are contiguous: every integer between 0 and the
\* maximum is the residue id of some atom, whatever the input's numbering.
C17_ResidueNormalization ==
    BuiltProtein =>
        LET ids == Range(built.val.atom2res)
        IN  /\ Min(ids) = 0
            /\ \A r \in 0..Max(ids) : r \in ids

\* the part of C17 that holds: the ids are the residue numbers minus the
\* smallest residue number, so the smallest id is 0
C17_ZeroBased ==
    BuiltProtein =>
        LET lo == Min({a.resnum : a \in Range(mol.atoms)})
        IN  /\ \A k \in 1..Len(mol.atoms) : built.val.atom2res[k] = mol.atoms[k].resnum - lo
            /\ 0 \in Range(built.val.atom2res)

\* the alpha carbons of the residue with normalized id r
AlphaCarbonsOf(r) ==
    {i \in 0..(Len(mol.atoms) - 1) :
        At(mol.atoms, i).name = "CA" /\ At(built.val.atom2res, i) = r}

\* C18: alpha-carbon map. For every atom a of a record of pdb_to_data,
\* atom2alpha_index[a] is the index of the atom named CA in a's residue, and
\* -1 when that residue has no such atom.
C18_AlphaCarbonMap ==
    BuiltProtein =>
        /\ Len(built.val.atom2alpha_index) = Len(mol.atoms)
        /\ \A a \in 0..(Len(mol.atoms) - 1) :
              LET cas == AlphaCarbonsOf(At(built.val.atom2res, a))
              IN  IF cas = {} THEN At(built.val.atom2alpha_index, a) = -1
                  ELSE At(built.val.atom2alpha_index, a) \in cas

\* a record with a residue that has an alpha carbon, before a residue without
C18_Witness ==
    /\ BuiltProtein
    /\ \E a, b \in 0..(Len(mol.atoms) - 1) :
          /\ a < b
          /\ At(built.val.atom2alpha_index, a) >= 0
          /\ At(built.val.atom2alpha_index, b) = -1
          /\ At(built.val.atom2res, a) # At(built.val.atom2res, b)
\* the flat records and the packed records of a PackedConformationDataset
FlatRecords == [k \in 1..Len(data) |-> heap[data[k]]]
PackedRecords == [k \in 1..Len(new_data) |-> heap[new_data[k]]]

\* stored positions of the records of molecule s, ascending
MembersOf(s) == {i \in 1..Len(data) : FlatRecords[i].smiles = s}

\* how many members of molecule s are stored at or before position i
RankIn(s, i) == Cardinality({j \in MembersOf(s) : j <= i})

\* C14: packing. There is exactly one packed record per distinct molecule
\* (smiles) of the store; for a molecule with K stored records the packed
\* record has the topology of the first of them, num_pos_ref = K and pos_ref
\* the K members' pos one after the other in stored order (K * N rows); for
\* K = 1, pos_ref is the source's pos.
C14_Packing ==
    cls = "PackedConformationDataset" =>
        /\ {PackedRecords[k].smiles : k \in 1..Len(new_data)}
               = {FlatRecords[i].smiles : i \in 1..Len(data)}
        /\ \A j, k \in 1..Len(new_data) :
               PackedRecords[j].smiles = PackedRecords[k].smiles => j = k
        /\ \A k \in 1..Len(new_data) :
               LET p     == PackedRecords[k]
                   mem   == MembersOf(p.smiles)
                   first == FlatRecords[Min(mem)]
                   N     == Len(first.pos)
                   K     == Cardinality(mem)
               IN  /\ p.num_pos_ref = K
                   /\ \A f \in {"atom_type", "pos", "edge_index", "edge_type", "smiles"} :
                          p[f] = first[f]
                   /\ Len(p.pos_ref) = K * N
                   /\ \A i \in mem : \A a \in 1..N :
                          p.pos_ref[(RankIn(p.smiles, i) - 1) * N + a] = FlatRecords[i].pos[a]
                   /\ K = 1 => p.pos_ref = first.pos

\* two conformers of one molecule with different coordinates were packed
C14_Witness ==
    /\ cls = "PackedConformationDataset"
    /\ Len(data) = 2
    /\ Len(new_data) = 1
    /\ FlatRecords[1].pos # FlatRecords[2].pos
    /\ PackedRecords[1].num_pos_ref = 2
\* C19: all atom-indexed fields are carried into the subgraph. The returned
\* record has every per-atom field of the source (atom_type, pos,
\* is_sidechain, atom2res, is_alpha, atom2alpha_index), restricted to the
\* kept atoms in order, index-valued fields in the new numbering.
C19_AllAtomFieldsCarried ==
    \A w \in Workers :
        HasSubgraph(w) =>
            /\ {"atom_type", "pos", "is_sidechain", "atom2res", "is_alpha",
                 "atom2alpha_index"} \subseteq DOMAIN Sub(w)
            /\ \A i \in KeptAtoms(w) :
                  /\ At(Sub(w).is_alpha, NewIndex(w, i)) = At(Src(w).is_alpha, i)
                  /\ At(Sub(w).atom2alpha_index, NewIndex(w, i))
                        = (IF At(Src(w).atom2alpha_index, i) = -1 THEN -1
                           ELSE NewIndex(w, At(Src(w).atom2alpha_index, i)))

\* the part of C19 that holds: the fields the subgraph record has
C19_FieldsOfSubgraph ==
    \A w \in Workers :
        HasSubgraph(w) =>
            DOMAIN Sub(w) = {"atom_type", "pos", "edge_index", "edge_type", "is_sidechain",
                             "atom2res"}

\* the backbone atoms of the record a call works on
BackboneAtoms(w) == {i \in AtomIds(Src(w)) : ~At(Src(w).is_sidechain, i)}

\* a call that has chosen its seed atom
Seeded(w) == Sidechain /\ wk[w].pc \in {"seeded", "sampled", "done"} /\ wk[w].center >= 0

\* C20: seed policy. The seed atom is always a backbone atom; with
\* fix_subgraph it is the backbone atom with floor(B/2) backbone atoms before
\* it, whatever the generator state, so two finished calls on the same index
\* have returned identical results and the generator is left as it was.
C20_FixedSeedPolicy ==
    /\ \A w \in Workers :
          Seeded(w) =>
              /\ wk[w].center \in BackboneAtoms(w)
              /\ fix_subgraph =>
                    /\ Cardinality({i \in BackboneAtoms(w) : i < wk[w].center})
                          = Cardinality(BackboneAtoms(w)) \div 2
                    /\ rng = wk[w].rng0
    /\ \A v, w \in Workers :
          (Sidechain /\ fix_subgraph /\ wk[v].pc = "done" /\ wk[w].pc = "done"
              /\ wk[v].idx = wk[w].idx)
              => Returned(v) = Returned(w)

\* two calls on one index finished with the same subgraph under the fixed
\* policy, the generator in a state other than its first
C20_Witness ==
    /\ Sidechain /\ fix_subgraph /\ rng # 0
    /\ wk["w1"].pc = "done" /\ wk["w2"].pc = "done"
    /\ wk["w1"].idx = wk["w2"].idx
    /\ wk["w1"].ret.tag = "Data"
    /\ wk["w1"].ret.val # wk["w2"].ret.val
    /\ Cardinality(BackboneAtoms("w1")) >= 3
\* the build job is over a structure whose annotation disagrees with its atoms
FaultyInput(k) == job.inputs[k] # UnparsableFile /\ AnnotationFaults(job.inputs[k]) # {}

\* inputs 1..n for which pdb_to_data returns a record / returns None
AcceptedUpTo(n) == {k \in 1..n : PdbToData(job.inputs[k]).tag = "Data"}
RejectedUpTo(n) == {k \in 1..n : PdbToData(job.inputs[k]).tag = "None"}

\* C13: annotation mismatch is skip-and-count. The build job is never
\* aborted at a structure whose atom order disagrees with the reference atom
\* list: that structure is counted as a failure, the loop goes on, and the
\* records built before and after are stored.
C13_MismatchSkipAndCount ==
    /\ \A k \in 1..Len(job.inputs) :
          FaultyInput(k) =>
              /\ ~(job.pc = "aborted" /\ job.i = k)
              /\ job.i > k => job.cnt_fail >= 1
    /\ job.pc \in {"saved", "loaded"} =>
          Len(job.train_data) = Cardinality(AcceptedUpTo(Len(job.inputs)))

\* the part of C13 that holds: a structure for which pdb_to_data returns None
\* is counted and skipped, and the loop goes on
C13_NoneIsCounted ==
    job.pc \in {"loop", "saved", "loaded"} =>
        LET n == IF job.pc = "loop" THEN job.i - 1 ELSE Len(job.inputs) IN
        /\ job.cnt_fail = Cardinality(RejectedUpTo(n))
        /\ Len(job.train_data) = Cardinality(AcceptedUpTo(n))

\* the samples of the batch that are records, by position
KeptPositions == {k \in 1..Len(batch) : batch[k].tag = "Data"}

\* the g-th (from 0) record of the batch
KeptSample(g) ==
    batch[CHOOSE k \in KeptPositions : Cardinality({j \in KeptPositions : j < k}) = g].val

\* the rows of a batched per-atom field that belong to graph g
RowsOf(field, g) ==
    MaskSelect(field, [k \in 1..Len(collated.val.batch) |-> collated.val.batch[k] = g])

\* the batch is the records of the list, in their order
BatchOfKept ==
    /\ collated.tag = "Data"
    /\ collated.val.num_graphs = Cardinality(KeptPositions)
    /\ \A g \in 0..(Cardinality(KeptPositions) - 1) :
          /\ RowsOf(collated.val.pos, g) = KeptSample(g).pos
          /\ RowsOf(collated.val.atom_type, g) = KeptSample(g).atom_type
          /\ RowsOf(collated.val.is_sidechain, g) = KeptSample(g).is_sidechain
    /\ \A k \in 1..(Len(collated.val.batch) - 1) :
          collated.val.batch[k] <= collated.val.batch[k + 1]
    /\ Len(collated.val.edge_index)
          = Len(CatField([g \in 1..Cardinality(KeptPositions) |-> KeptSample(g - 1)],
                         "edge_type"))

\* C15: collation filters misses. collate_fn returns the batch of exactly
\* the samples that are not None, in their order; when every sample is None
\* it returns an empty batch and raises nothing.
C15_CollateFiltersNone == collated # Pending => BatchOfKept

\* the part of C15 that holds: a list with at least one record
C15_NonEmptyBatch == (collated # Pending /\ KeptPositions # {}) => BatchOfKept

\* the record a call works on has a residue id at or above the ceiling
OverCeiling(w) == \E i \in AtomIds(Src(w)) : At(Src(w).atom2res, i) >= max_residue

\* the span of the residue numbers of input k reaches the builder's buffer
OverBuffer(k) ==
    LET nums == {a.resnum : a \in Range(job.inputs[k].atoms)}
    IN  /\ job.inputs[k] # UnparsableFile
        /\ ~FaultyInput(k)
        /\ Max(nums) - Min(nums) >= ResidueBufferSize

\* C16: the residue ceiling is a hard error. A call on a record with a
\* residue id >= max_residue ends with an exception and never returns a
\* subgraph; the build job stops with an exception at a structure whose
\* residue ids reach beyond the alpha-carbon buffer, and no such record is
\* ever stored.
C16_ResidueCeilingHardError ==
    /\ \A w \in Workers :
          (Sidechain /\ wk[w].pc \in {"sampled", "done"} /\ OverCeiling(w))
              => wk[w].ret.tag = "raise"
    /\ \A k \in 1..Len(job.inputs) :
          OverBuffer(k) =>
              /\ job.i <= k
              /\ job.i = k => job.pc \in {"loop", "aborted"}
    /\ \A k \in 1..Len(job.train_data) :
          \A j \in 1..Len(job.train_data[k].atom2res) :
              job.train_data[k].atom2res[j] < ResidueBufferSize

\* a job stored a record with residue ids 0 and 2, the dataset was loaded
\* with the ceiling 2, and a call on that record ended with an exception
C16_Witness ==
    /\ job.pc = "loaded"
    /\ Sidechain
    /\ wk["w1"].pc = "done"
    /\ OverCeiling("w1")
    /\ wk["w1"].center >= 0
    /\ wk["w1"].ret.tag = "raise"
\* C21: packing drops the energetics and leaves the sources alone. No packed
\* record has a totalenergy or boltzmannweight field although the stored
\* conformers carry them; the packed records are objects of their own, and
\* the flat records keep both fields and their pos.
C21_PackingDropsEnergetics ==
    cls = "PackedConformationDataset" =>
        /\ \A k \in 1..Len(new_data) :
              /\ "totalenergy" \notin DOMAIN PackedRecords[k]
              /\ "boltzmannweight" \notin DOMAIN PackedRecords[k]
              /\ new_data[k] \notin Range(data)
        /\ \A i \in 1..Len(data) :
              /\ {"totalenergy", "boltzmannweight", "pos"} \subseteq DOMAIN FlatRecords[i]
              /\ FlatRecords[i] = snapshot[data[i]]
              /\ FlatRecords[i] \in ConformerPool

\* two conformers with different energies were packed into one record, and a
\* call has returned a transformed copy of it
C21_Witness ==
    /\ cls = "PackedConformationDataset"
    /\ Len(data) = 2
    /\ Len(new_data) = 1
    /\ FlatRecords[1].totalenergy # FlatRecords[2].totalenergy
    /\ \E w \in Workers : wk[w].pc = "done" /\ wk[w].transformed
\* the molecule indices of the flat records
StoredIdx == {FlatRecords[i].idx : i \in 1..Len(data)}

\* C22: grouping key of the packer. Stored records that carry a molecule
\* index idx are grouped by it: there is one packed record per distinct idx,
\* holding as many conformers as records carry that idx, so records with the
\* same smiles and different idx are packed apart.
C22_GroupedByIdx ==
    (cls = "PackedConformationDataset"
        /\ \A i \in 1..Len(data) : "idx" \in DOMAIN FlatRecords[i])
    => /\ Len(new_data) = Cardinality(StoredIdx)
       /\ \A k \in 1..Len(new_data) :
             PackedRecords[k].num_pos_ref
                 = Cardinality({i \in 1..Len(data) : FlatRecords[i].idx = PackedRecords[k].idx})

\* what the packer does instead: records are grouped by smiles whether or
\* not they carry idx
C22_GroupedBySmiles ==
    cls = "PackedConformationDataset" =>
        /\ Len(new_data) = Cardinality({FlatRecords[i].smiles : i \in 1..Len(data)})
        /\ \A k \in 1..Len(new_data) :
              PackedRecords[k].num_pos_ref = Cardinality(MembersOf(PackedRecords[k].smiles))
\* C23: sampled subgraphs keep the edge-list invariants. The edge list of a
\* returned subgraph is symmetric (with (u, v) there is (v, u), of the same
\* type) and ascends strictly by source * M + target, M the number of atoms
\* of the subgraph.
C23_SubgraphEdgesSymmetricSorted ==
    \A w \in Workers :
        HasSubgraph(w) =>
            LET ei == Sub(w).edge_index
                et == Sub(w).edge_type
                M  == Len(Sub(w).pos)
            IN  /\ Len(et) = Len(ei)
                /\ \A k \in 1..Len(ei) :
                      \E j \in 1..Len(ei) :
                          ei[j] = <<ei[k][2], ei[k][1]>> /\ et[j] = et[k]
                /\ \A k \in 1..(Len(ei) - 1) :
                      ei[k][1] * M + ei[k][2] < ei[k + 1][1] * M + ei[k + 1][2]

\* a subgraph that dropped the first residue and some edges of the source,
\* and kept two bonds, renumbered
C23_Witness ==
    \E w \in Workers :
        /\ HasSubgraph(w)
        /\ 0 \notin KeptAtoms(w)
        /\ Len(Sub(w).edge_index) >= 4
        /\ Len(Sub(w).edge_index) < Len(Src(w).edge_index)
\* the records of molecule tpl in a list
RecordsOf(list, tpl) == {k \in 1..Len(list) : list[k].smiles = <<tpl>>}

\* the lists that hold a record of molecule tpl
ListsOf(tpl) ==
    {l \in {"train", "val", "test"} :
        RecordsOf(IF l = "train" THEN geom.train_data
                  ELSE IF l = "val" THEN geom.val_data ELSE geom.test_data, tpl) # {}}

\* the molecules processed so far that were not skipped as bad cases
GoodProcessed ==
    {p \in 0..(geom.i - 1) :
        LET m == At(geom.mols, p) IN
        ~(m.uniqueconfs > Len(m.conformers) \/ m.uniqueconfs <= 0)}

\* C24: molecule-level split of the GEOM preprocessing. At every point of
\* the loop the conformers selected for a processed molecule are all in one
\* of train_data, val_data, test_data and in no other; in the fixed variant
\* every index below tot_mol_size has a label in index2split; and
\* num_mols[0] = num_mols[1] + num_mols[2] + num_mols[3],
\* num_confs[0] = len(train_data) + len(val_data) + len(test_data).
C24_MoleculeLevelSplit ==
    geom.pc \in {"loop", "returned", "aborted"} =>
        /\ \A p \in GoodProcessed :
              LET m == At(geom.mols, p)
                  K == IF geom.fixed \/ geom.n_conf < m.uniqueconfs THEN geom.n_conf
                       ELSE m.uniqueconfs
              IN  /\ Cardinality(ListsOf(m.tpl)) = 1
                  /\ Cardinality(RecordsOf(geom.train_data, m.tpl))
                        + Cardinality(RecordsOf(geom.val_data, m.tpl))
                        + Cardinality(RecordsOf(geom.test_data, m.tpl)) = K
                  /\ geom.fixed => ListsOf(m.tpl) = {geom.index2split[p]}
        /\ geom.fixed =>
              /\ DOMAIN geom.index2split = 0..(Len(geom.mols) - 1)
              /\ \A x \in DOMAIN geom.index2split :
                    geom.index2split[x] \in {"train", "val", "test"}
        /\ geom.num_mols[1] = geom.num_mols[2] + geom.num_mols[3] + geom.num_mols[4]
        /\ geom.num_mols[1] = Cardinality(GoodProcessed)
        /\ geom.num_confs[1]
              = Len(geom.train_data) + Len(geom.val_data) + Len(geom.test_data)
        /\ geom.num_confs[2] = Len(geom.train_data)
        /\ geom.num_confs[3] = Len(geom.val_data)
        /\ geom.num_confs[4] = Len(geom.test_data)

\* a run returned with two molecules in different lists, one of them with
\* more than one conformer
C24_Witness ==
    /\ geom.pc = "returned"
    /\ geom.train_data # <<>>
    /\ geom.test_data # <<>>
    /\ geom.num_confs[1] >= 3
    /\ geom.num_mols[1] = 2
\* the alpha-carbon atoms (0-based) of the protein handed to the call
AlphaAtomsOfCall == {k \in 0..(Len(acc.args.rec.pos) - 1) : At(acc.args.rec.is_alpha, k)}

\* C25: termination of the subgraph decomposition. For a call of
\* accumulate_grad_from_subgraph with cutoff >= 0 and every residue id below
\* max_residue, the covering loop is run to its end: the call does not stop
\* before every alpha-carbon atom is marked in is_covered.
C25_CoveringLoopCoversAlpha ==
    ( /\ acc.pc \notin {"off", "call", "prepare", "loop"}
      /\ acc.args.cutoff >= 0
      /\ \A k \in 1..Len(acc.args.rec.atom2res) :
            acc.args.rec.atom2res[k] < acc.args.max_residue )
    => /\ acc.pc = "covered"
       /\ Len(acc.is_covered) = Len(acc.args.rec.pos)
       /\ \A k \in AlphaAtomsOfCall : At(acc.is_covered, k)
====
